---------------------------- MODULE Spec2Model ----------------------------
(***************************************************************************)
(* A model of the two sltools command line utilities:                      *)
(*   - pdf_rename   (src/src/sltools/pdf_rename/metadata.py, __main__.py)  *)
(*   - bandcamp_import (src/src/sltools/bandcamp_import/__main__.py)       *)
(*                                                                         *)
(* A Python str is modelled as a sequence of one-character strings, so     *)
(* that replace, split, strip, lower and the regular expressions are       *)
(* computed character by character, as Python computes them.  The two      *)
(* curly single quotes U+2018 and U+2019 are written "lsquo" and "rsquo".  *)
(* Python's None, where a str is expected, is the value None, a sequence   *)
(* that is no str (its only element is not a character).                   *)
(***************************************************************************)
EXTENDS Integers, Sequences, FiniteSets, TLC

None == <<"None">>

(***************************************************************************)
(* Python str primitives                                                   *)
(***************************************************************************)
Uppers == <<"A","B","C","D","E","F","G","H","I","J","K","L","M",
            "N","O","P","Q","R","S","T","U","V","W","X","Y","Z">>
Lowers == <<"a","b","c","d","e","f","g","h","i","j","k","l","m",
            "n","o","p","q","r","s","t","u","v","w","x","y","z">>
Digits == {"0","1","2","3","4","5","6","7","8","9"}
Whitespace == {" ", "\t", "\n"}

Letters == {Uppers[i] : i \in 1..26} \cup {Lowers[i] : i \in 1..26}
Alnum == Letters \cup Digits

\* str.lower() / str.upper() on one character
LowerChar(c) ==
    IF \E i \in 1..26 : Uppers[i] = c
    THEN Lowers[CHOOSE i \in 1..26 : Uppers[i] = c]
    ELSE c
UpperChar(c) ==
    IF \E i \in 1..26 : Lowers[i] = c
    THEN Uppers[CHOOSE i \in 1..26 : Lowers[i] = c]
    ELSE c

\* str.lower()
Lower(s) == [i \in 1..Len(s) |-> LowerChar(s[i])]

\* str.capitalize(): first character upper-cased, the rest lower-cased
Capitalize(s) == [i \in 1..Len(s) |-> IF i = 1 THEN UpperChar(s[i]) ELSE LowerChar(s[i])]

\* s[i:] (i counted from 1)
Tail_(s, i) == SubSeq(s, i, Len(s))

\* s.startswith(p, i-1)
StartsAt(s, p, i) ==
    /\ i + Len(p) - 1 <= Len(s)
    /\ \A k \in 1..Len(p) : s[i + k - 1] = p[k]

\* p in s
Contains(s, p) == \E i \in 1..(Len(s) + 1) : StartsAt(s, p, i)

\* str.strip()
RECURSIVE LStrip(_)
LStrip(s) == IF s # <<>> /\ Head(s) \in Whitespace THEN LStrip(Tail(s)) ELSE s
RECURSIVE RStrip(_)
RStrip(s) ==
    IF s # <<>> /\ s[Len(s)] \in Whitespace THEN RStrip(SubSeq(s, 1, Len(s) - 1)) ELSE s
Strip(s) == RStrip(LStrip(s))

\* str.replace(old, new) for a non-empty old: leftmost, non-overlapping,
\* one pass (the text inserted is never scanned again)
RECURSIVE Replace(_, _, _)
Replace(s, old, new) ==
    IF s = <<>> THEN <<>>
    ELSE IF StartsAt(s, old, 1)
         THEN new \o Replace(Tail_(s, Len(old) + 1), old, new)
         ELSE <<Head(s)>> \o Replace(Tail(s), old, new)

\* re.sub('[chars]', '', s)
RECURSIVE RemoveChars(_, _)
RemoveChars(s, chars) ==
    IF s = <<>> THEN <<>>
    ELSE IF Head(s) \in chars
         THEN RemoveChars(Tail(s), chars)
         ELSE <<Head(s)>> \o RemoveChars(Tail(s), chars)

\* str.split(sep) for a non-empty sep: always at least one piece
RECURSIVE SplitAcc(_, _, _)
SplitAcc(s, sep, cur) ==
    IF s = <<>> THEN <<cur>>
    ELSE IF StartsAt(s, sep, 1)
         THEN <<cur>> \o SplitAcc(Tail_(s, Len(sep) + 1), sep, <<>>)
         ELSE SplitAcc(Tail(s), sep, Append(cur, Head(s)))
Split(s, sep) == SplitAcc(s, sep, <<>>)

\* str.split(sep, 1)
RECURSIVE SplitOnceAcc(_, _, _)
SplitOnceAcc(s, sep, cur) ==
    IF s = <<>> THEN <<cur>>
    ELSE IF StartsAt(s, sep, 1)
         THEN <<cur, Tail_(s, Len(sep) + 1)>>
         ELSE SplitOnceAcc(Tail(s), sep, Append(cur, Head(s)))
SplitOnce(s, sep) == SplitOnceAcc(s, sep, <<>>)

\* str.split(): on runs of whitespace, no empty piece
RECURSIVE SplitWSAcc(_, _)
SplitWSAcc(s, cur) ==
    IF s = <<>> THEN (IF cur = <<>> THEN <<>> ELSE <<cur>>)
    ELSE IF Head(s) \in Whitespace
         THEN (IF cur = <<>> THEN <<>> ELSE <<cur>>) \o SplitWSAcc(Tail(s), <<>>)
         ELSE SplitWSAcc(Tail(s), Append(cur, Head(s)))
SplitWS(s) == SplitWSAcc(s, <<>>)

\* sep.join(parts)
RECURSIVE Join(_, _)
Join(parts, sep) ==
    IF parts = <<>> THEN <<>>
    ELSE IF Len(parts) = 1 THEN parts[1]
    ELSE parts[1] \o sep \o Join(Tail(parts), sep)

\* all sequences over alphabet of length at most n
RECURSIVE SeqsUpTo(_, _)
SeqsUpTo(alphabet, n) ==
    IF n = 0 THEN {<<>>}
    ELSE LET shorter == SeqsUpTo(alphabet, n - 1)
         IN  shorter \cup {Append(s, c) : s \in {t \in shorter : Len(t) = n - 1}, c \in alphabet}

\* all concatenations of at most n chunks
RECURSIVE ChunkSeqs(_, _)
ChunkSeqs(chunks, n) ==
    IF n = 0 THEN {<<>>}
    ELSE LET shorter == ChunkSeqs(chunks, n - 1)
         IN  shorter \cup {s \o c : s \in shorter, c \in chunks}

(***************************************************************************)
(* pdf_rename/metadata.py: fix_title                                       *)
(***************************************************************************)
QuoteChars == {"'", "\"", "lsquo", "rsquo"}

fix_title(title) ==
    LET t1 == Replace(title, <<":", " ">>, <<" ", "-", " ">>)
        t2 == Replace(t1, <<"/">>, <<"_">>)
    IN  RemoveChars(t2, QuoteChars)


(***************************************************************************)
(* Author names: papers.encoding.standard_name / family_names and          *)
(* bibtexparser.customization.getnames, as called from metadata.py.        *)
(* A call either returns a value or raises: [ok |-> TRUE, val |-> v] or    *)
(* [ok |-> FALSE, err |-> kind].                                           *)
(* The author vocabulary of this model holds no braces, no "jr"/"junior"   *)
(* suffix and no name particle ("van", "de", ...), so the library's        *)
(* handling of those is not exercised and not modelled.                     *)
(***************************************************************************)
Ok(v) == [ok |-> TRUE, val |-> v]
Raise(kind) == [ok |-> FALSE, err |-> kind]

Comma == <<",">>
AndSep == <<" ", "a", "n", "d", " ">>
Unknown == <<"u", "n", "k", "n", "o", "w", "n">>

\* getnames on one name: <<"Last, First ...">> from either "Last, First" or
\* "First ... Last"; <<>> for a blank name (skipped by getnames)
GetName(namestring) ==
    LET ns == Strip(namestring)
    IN  IF Len(ns) < 1 THEN <<>>
        ELSE IF Contains(ns, Comma)
             THEN LET namesplit == SplitOnce(ns, Comma)
                      last == Strip(namesplit[1])
                      firsts == SplitWS(namesplit[2])
                  IN  <<last \o <<",", " ">> \o Join(firsts, <<" ">>)>>
             ELSE LET namesplit == SplitWS(ns)
                      last == namesplit[Len(namesplit)]
                      firsts == [i \in 1..(Len(namesplit) - 1) |->
                                   Strip(Replace(namesplit[i], <<".">>, <<".", " ">>))]
                  IN  <<last \o <<",", " ">> \o Join(firsts, <<" ">>)>>

\* getnames(author.split(' and ')): the tidy names, blanks dropped
RECURSIVE GetNames(_)
GetNames(names) ==
    IF names = <<>> THEN <<>>
    ELSE GetName(Head(names)) \o GetNames(Tail(names))

\* standard_name: "family, given = name.split(',')" raises ValueError unless
\* the tidy name holds exactly one comma
standard_name(author) ==
    LET tidy == GetNames(Split(author, AndSep))
    IN  IF \E i \in 1..Len(tidy) : Len(Split(tidy[i], Comma)) # 2
        THEN Raise("ValueError")
        ELSE Ok(Join([i \in 1..Len(tidy) |->
                        LET fg == Split(tidy[i], Comma)
                        IN  Strip(fg[1]) \o <<",", " ">> \o Strip(fg[2])],
                     AndSep))

\* family_names: [nm.split(',')[0] for nm in standard_name(a).split(' and ')]
family_names(author) ==
    LET sn == standard_name(author)
    IN  IF ~sn.ok THEN sn
        ELSE LET authors == Split(sn.val, AndSep)
             IN  Ok([i \in 1..Len(authors) |-> Split(authors[i], Comma)[1]])

\* first_names: [nm.split(",")[1].strip() for nm in ...]; IndexError when a
\* piece holds no comma
first_names(author) ==
    LET sn == standard_name(author)
    IN  IF ~sn.ok THEN sn
        ELSE LET authors == Split(sn.val, AndSep)
             IN  IF \E i \in 1..Len(authors) : Len(Split(authors[i], Comma)) < 2
                 THEN Raise("IndexError")
                 ELSE Ok([i \in 1..Len(authors) |-> Strip(Split(authors[i], Comma)[2])])

(***************************************************************************)
(* Metadata: the first entry of the parsed BibTeX, a record whose fields    *)
(* author, year, title are strings or None (key absent).                   *)
(***************************************************************************)
\* self._content.get("author", "unknown")
AuthorOrUnknown(content) == IF content.author = None THEN Unknown ELSE content.author

Dash == <<" ", "-", " ">>
DotSpace == <<".", " ">>
PdfExt == <<".", "p", "d", "f">>

generate_pdf_filename(content) ==
    LET a == Lower(AuthorOrUnknown(content))
        fam == family_names(a)
        fir == first_names(a)
    IN  IF ~fam.ok THEN Raise(fam.err)
        ELSE IF ~fir.ok THEN Raise("ImproperAuthorNames")
        ELSE IF fam.val = <<>> \/ fam.val[1] = Unknown THEN Raise("NoProperAuthor")
        ELSE IF content.year = None THEN Raise("KeyError")
        ELSE IF fir.val[1] = <<>> THEN Raise("IndexError")
        ELSE IF content.title = None THEN Raise("KeyError")
        ELSE Ok(content.year \o Dash
                \o Capitalize(<<fir.val[1][1]>>) \o DotSpace
                \o Capitalize(fam.val[1]) \o Dash
                \o fix_title(content.title) \o PdfExt)


(***************************************************************************)
(* metadata.py: DOI_REGEXP and MetadataExtractor._extract_doi_from_pdf     *)
(***************************************************************************)
DoiMinDigits == 4
DoiMaxDigits == 9
DoiClass == {"-", ".", "_", ";", "(", ")", "/", ":"} \cup Alnum

\* 10\.\d{d}\/ matched at position i of s
DoiPrefixAt(s, i, d) ==
    /\ i + 3 + d <= Len(s)
    /\ s[i] = "1" /\ s[i + 1] = "0" /\ s[i + 2] = "."
    /\ \A k \in 0..(d - 1) : s[i + 3 + k] \in Digits
    /\ s[i + 3 + d] = "/"

\* [-._;()/:A-Za-z0-9]+[A-Za-z0-9] matched greedily from position b: the
\* position of its last character, 0 when it does not match
DoiBodyEnd(s, b) ==
    LET ends == {j \in (b + 1)..Len(s) :
                    /\ s[j] \in Alnum
                    /\ \A k \in b..(j - 1) : s[k] \in DoiClass}
    IN  IF ends = {} THEN 0 ELSE CHOOSE j \in ends : \A k \in ends : k <= j

\* the match of DOI_REGEXP that starts at position i: the position of its
\* last character, 0 when there is none (greedy \d{4,9}, backtracking)
DoiMatchEnd(s, i) ==
    LET ds == {d \in DoiMinDigits..DoiMaxDigits :
                  DoiPrefixAt(s, i, d) /\ DoiBodyEnd(s, i + 4 + d) # 0}
    IN  IF ds = {} THEN 0
        ELSE DoiBodyEnd(s, i + 4 + (CHOOSE d \in ds : \A e \in ds : e <= d))

\* re.findall(DOI_REGEXP, text): the matches, leftmost first, non-overlapping
RECURSIVE DoiFindAllFrom(_, _)
DoiFindAllFrom(s, i) ==
    IF i > Len(s) THEN <<>>
    ELSE LET e == DoiMatchEnd(s, i)
         IN  IF e = 0 THEN DoiFindAllFrom(s, i + 1)
             ELSE <<SubSeq(s, i, e)>> \o DoiFindAllFrom(s, e + 1)
DoiFindAll(s) == DoiFindAllFrom(s, 1)

\* doc.metadata of the opened PDF: None (not a dict), or a dict with or
\* without the key "doi"
NoMetadata == [kind |-> "none"]
MetadataDict == [kind |-> "dict", has_doi |-> FALSE]
MetadataWithDoi(d) == [kind |-> "dict", has_doi |-> TRUE, doi |-> d]

_extract_doi_from_pdf(doc) ==
    IF doc.metadata.kind = "none" THEN None
    ELSE IF doc.metadata.has_doi THEN doc.metadata.doi
    ELSE LET doi_match == DoiFindAll(doc.first_page_text)
         IN  IF Len(doi_match) > 0 THEN doi_match[1] ELSE None


(***************************************************************************)
(* State                                                                   *)
(***************************************************************************)
VARIABLES
    \* pdf_rename: the parsed arguments and MetadataExtractor's fields
    arxiv_id,        \* args.arxiv_id / self._arxiv_id: a str or None
    doi,             \* args.doi / self._doi: a str or None
    title,           \* args.title / self._title: a str or None
    no_text_search,  \* args.no_text_search / self._no_text_search
    dry_run,         \* args.dry_run
    pdf,             \* what pymupdf reads from the input PDF
    bibtex_str,      \* local bibtex_str of extract_metadata
    content,         \* Metadata._content
    final_name,      \* local final_name of main
    pc,              \* position in main / extract_metadata
    error,           \* the exception that ended the run, if any
    calls,           \* the external calls made so far, in order
    fs,              \* the paths that hold a file
    log,             \* the records logged by main and extract_metadata
    \* fix_title applied repeatedly
    applied,
    \* bandcamp_import
    track,           \* stem of the .flac file the loop is at
    renamed,         \* the rename the loop performed on it
    image,           \* local image of main
    opens,           \* the Image.open attempts, in order
    written,         \* the files image.save wrote, in order
    ipc,             \* position in main
    ierror           \* the exception that ended the import, if any

pdfVars == <<arxiv_id, doi, title, no_text_search, dry_run, pdf, bibtex_str,
             content, final_name, pc, error, calls, fs, log>>
importVars == <<track, renamed, image, opens, written, ipc, ierror>>
vars == <<pdfVars, applied, importVars>>

NoError == [kind |-> "none"]
NoneBib == [none |-> TRUE]
NoContent == [none |-> TRUE]
NoImage == [none |-> TRUE]
NoRename == [none |-> TRUE]

\* the values of the variables of a tool that is not running
PdfIdle ==
    /\ arxiv_id = None /\ doi = None /\ title = None
    /\ no_text_search = FALSE /\ dry_run = FALSE
    /\ pdf = [metadata |-> NoMetadata, first_page_text |-> <<>>]
    /\ bibtex_str = NoneBib /\ content = NoContent /\ final_name = None
    /\ pc = "idle" /\ error = NoError /\ calls = <<>> /\ fs = {} /\ log = <<>>
TitleIdle == applied = <<>>
ImportIdle ==
    /\ track = None /\ renamed = NoRename /\ image = NoImage
    /\ opens = <<>> /\ written = <<>> /\ ipc = "idle" /\ ierror = NoError

(***************************************************************************)
(* pdf_rename: inputs                                                      *)
(***************************************************************************)
MaxTextChunks == 2

InputDir == <<"p">>
InputName == <<"x", ".", "p", "d", "f">>

\* pathlib: output_dir / final_name (an absolute right operand replaces the left)
PathJoin(dir, name) ==
    IF name # <<>> /\ name[1] = "/" THEN name ELSE dir \o <<"/">> \o name
\* f"{output_dir}/{final_name}"
PathFormat(dir, name) == dir \o <<"/">> \o name

InputPdf == PathJoin(InputDir, InputName)

ArxivIds == {<<"2", "1", "0", "1", ".", "1">>}
ExplicitDois == {<<"1", "0", ".", "1", "/", "e">>}
EmbeddedDois == {<<"1", "0", ".", "2", "/", "m">>}

\* first-page texts: a DOI, a look-alike with too few digits, a space
TextChunks ==
    { <<"1", "0", ".", "1", "2", "3", "4", "/", "a", ".">>,
      <<"1", "0", ".", "1", "2", "/", "z">>,
      <<" ">> }
Texts == ChunkSeqs(TextChunks, MaxTextChunks)

Pdfs ==
    [metadata : {NoMetadata, MetadataDict} \cup {MetadataWithDoi(d) : d \in EmbeddedDois},
     first_page_text : Texts]

TitleOverrides == { <<"A", ":", " ", "b", " ">>, <<"z">> }
RecordTitles == { <<" ", "a", ":", " ", "B">>, <<"c", "/", "d">> }
RecordAuthors == { <<"D", "o", "e", ",", " ", "J", "a", "n", "e">> }
RecordYears == { <<"2", "0", "2", "3">> }

\* the first entry of a parsed BibTeX string: author and year may be absent
Entries ==
    [author : RecordAuthors \cup {None},
     year : RecordYears \cup {None},
     title : RecordTitles]

\* what a lookup returns: None, or a BibTeX string, given by the entries
\* bibtexparser.loads finds in it.  The lookups are taken to return well
\* formed BibTeX: one entry, with a title.
BibtexStrs == {[entries |-> <<e>>] : e \in Entries}
LookupOutcomes == {NoneBib} \cup BibtexStrs

\* an external call made, with what it returned
Call(fn, arg, ret) == [fn |-> fn, arg |-> arg, ret |-> ret]
\* an exception raised
Failed(kind, arg) == [kind |-> kind, arg |-> arg]

InitPdf ==
    /\ arxiv_id \in ArxivIds \cup {None}
    /\ doi \in ExplicitDois \cup {None}
    /\ title \in TitleOverrides \cup {None}
    /\ no_text_search \in BOOLEAN
    /\ dry_run \in BOOLEAN
    /\ pdf \in Pdfs
    /\ bibtex_str = NoneBib
    /\ content = NoContent
    /\ final_name = None
    /\ pc = "extract"
    /\ error = NoError
    /\ calls = <<>>
    /\ fs = {InputPdf}
    /\ log = <<>>

(***************************************************************************)
(* MetadataExtractor.extract_metadata                                      *)
(***************************************************************************)
\* line 76: if self._arxiv_id is not None
UsesArxiv_UnlessDoi(a) == a # None /\ doi = None
UsesArxiv(a) == a # None

\* line 79: if self._doi is None
NeedsPdfDoi(d) == d = None

\* line 82: if self._doi is not None
HasDoi(d) == d # None

\* line 85: if bibtex_str is None (the warning)
DoiLookupFailed(b) == b = NoneBib

\* line 88: if (bibtex_str is None) and (not self._no_text_search)
NeedsTextSearch_Always(b, nts) == ~nts
NeedsTextSearch_IgnoreFlag(b, nts) == b = NoneBib
NeedsTextSearch(b, nts) == b = NoneBib /\ ~nts

\* line 93: the query of the full-text search when a title is given
QueryOfTitle(t) == Strip(Lower(t))

\* line 102: the retrieved title is not the title given
TitleMismatch_NoCheck(retrieved, given) == FALSE
TitleMismatch(retrieved, given) == Strip(Lower(retrieved)) # Strip(Lower(given))

\* lines 76-77: an arXiv ID is given
ArxivLookup ==
    /\ pc = "extract"
    /\ UsesArxiv(arxiv_id)
    /\ \E r \in LookupOutcomes :
          /\ bibtex_str' = r
          /\ calls' = Append(calls, Call("fetch_bibtex_by_arxiv", arxiv_id, r))
    /\ pc' = "fallback"
    /\ UNCHANGED <<arxiv_id, doi, title, no_text_search, dry_run, pdf, content,
                   final_name, error, fs, log>>

\* lines 79-82: no arXiv ID; the DOI is the one given, else the one of the PDF
DetermineDoi ==
    /\ pc = "extract"
    /\ ~UsesArxiv(arxiv_id)
    /\ IF NeedsPdfDoi(doi)
       THEN /\ doi' = _extract_doi_from_pdf(pdf)
            /\ calls' = Append(calls, Call("pymupdf.open", InputPdf, doi'))
       ELSE UNCHANGED <<doi, calls>>
    /\ pc' = IF HasDoi(doi') THEN "doi_lookup" ELSE "fallback"
    /\ UNCHANGED <<arxiv_id, title, no_text_search, dry_run, pdf, bibtex_str,
                   content, final_name, error, fs, log>>

\* lines 83-86
DoiLookup ==
    /\ pc = "doi_lookup"
    /\ \E r \in LookupOutcomes :
          /\ bibtex_str' = r
          /\ calls' = Append(calls, Call("fetch_bibtex_by_doi", doi, r))
          /\ log' = IF DoiLookupFailed(r)
                    THEN Append(log, [level |-> "warning", what |-> "doi", about |-> doi])
                    ELSE log
    /\ pc' = "fallback"
    /\ UNCHANGED <<arxiv_id, doi, title, no_text_search, dry_run, pdf, content,
                   final_name, error, fs>>

\* lines 88-105
TextSearch ==
    /\ pc = "fallback"
    /\ NeedsTextSearch(bibtex_str, no_text_search)
    /\ \E r \in LookupOutcomes :
          /\ bibtex_str' = r
          /\ calls' = IF title # None
                      THEN Append(calls,
                                  Call("fetch_bibtex_by_fulltext_scholar", QueryOfTitle(title), r))
                      ELSE calls \o << Call("pdfhead", InputPdf, <<"head">>),
                                       Call("fetch_bibtex_by_fulltext_scholar", <<"head">>, r) >>
          /\ IF r = NoneBib
             THEN pc' = "finish" /\ error' = error
             ELSE IF title # None /\ TitleMismatch(r.entries[1].title, title)
                  THEN pc' = "failed" /\ error' = Failed("WrongEntry", r.entries[1].title)
             ELSE pc' = "finish" /\ error' = error
    /\ UNCHANGED <<arxiv_id, doi, title, no_text_search, dry_run, pdf, content,
                   final_name, fs, log>>

\* line 88 is false: a record was found, or the full-text search is disabled
SkipTextSearch ==
    /\ pc = "fallback"
    /\ ~NeedsTextSearch(bibtex_str, no_text_search)
    /\ pc' = "finish"
    /\ UNCHANGED <<arxiv_id, doi, title, no_text_search, dry_run, pdf, bibtex_str,
                   content, final_name, error, calls, fs, log>>

\* lines 107-110 and Metadata.__init__ (lines 30-34)
Finish ==
    /\ pc = "finish"
    /\ IF bibtex_str = NoneBib
       THEN pc' = "failed" /\ error' = Failed("NoMetadata", InputPdf) /\ content' = content
       ELSE pc' = "generate" /\ error' = error /\ content' = bibtex_str.entries[1]
    /\ UNCHANGED <<arxiv_id, doi, title, no_text_search, dry_run, pdf, bibtex_str,
                   final_name, calls, fs, log>>

(***************************************************************************)
(* pdf_rename/__main__.py: main, after extract_metadata                    *)
(***************************************************************************)
\* line 160
GeneratePdfFilename ==
    /\ pc = "generate"
    /\ LET g == generate_pdf_filename(content)
       IN  IF g.ok
           THEN final_name' = g.val /\ pc' = "rename" /\ error' = error
           ELSE final_name' = final_name /\ pc' = "name_failed"
                /\ error' = Failed(g.err, <<>>)
    /\ UNCHANGED <<arxiv_id, doi, title, no_text_search, dry_run, pdf, bibtex_str,
                   content, calls, fs, log>>

\* line 161: if not args.dry_run
Moves_Always(dr) == TRUE
Moves(dr) == ~dr

\* shutil.move(src, dst) of a file
Move(files, src, dst) == (files \ {src}) \cup {dst}

\* lines 161-165
Rename ==
    /\ pc = "rename"
    /\ IF Moves(dry_run)
       THEN /\ fs' = Move(fs, InputPdf, PathJoin(InputDir, final_name))
            /\ log' = Append(log, [level |-> "info", what |-> "renamed",
                                   about |-> PathFormat(InputDir, final_name)])
       ELSE /\ fs' = fs
            /\ log' = Append(log, [level |-> "info", what |-> "dry-run renamed",
                                   about |-> PathFormat(InputDir, final_name)])
    /\ pc' = "done"
    /\ UNCHANGED <<arxiv_id, doi, title, no_text_search, dry_run, pdf, bibtex_str,
                   content, final_name, error, calls>>

\* the PDF renamer, run once on one input PDF
Init == InitPdf /\ TitleIdle /\ ImportIdle
Next ==
    \/ ArxivLookup /\ UNCHANGED <<applied, importVars>>
    \/ DetermineDoi /\ UNCHANGED <<applied, importVars>>
    \/ DoiLookup /\ UNCHANGED <<applied, importVars>>
    \/ TextSearch /\ UNCHANGED <<applied, importVars>>
    \/ SkipTextSearch /\ UNCHANGED <<applied, importVars>>
    \/ Finish /\ UNCHANGED <<applied, importVars>>
    \/ GeneratePdfFilename /\ UNCHANGED <<applied, importVars>>
    \/ Rename /\ UNCHANGED <<applied, importVars>>
Spec == Init /\ [][Next]_vars

(***************************************************************************)
(* Properties of extract_metadata and main, read off the call history      *)
(***************************************************************************)
Strategies == {"fetch_bibtex_by_arxiv", "fetch_bibtex_by_doi",
               "fetch_bibtex_by_fulltext_scholar"}
Called(fn) == \E i \in 1..Len(calls) : calls[i].fn = fn
CalledWith(fn, found) ==
    \E i \in 1..Len(calls) : calls[i].fn = fn /\ ((calls[i].ret # NoneBib) = found)
\* extract_metadata has returned or raised
ExtractEnded == pc \notin {"extract", "doi_lookup", "fallback", "finish"}
\* extract_metadata has returned a Metadata
ExtractReturned == pc \in {"generate", "rename", "done", "name_failed"}
\* the decision of line 88 has been taken
PastFallback == pc \notin {"extract", "doi_lookup", "fallback"}

Scholar == "fetch_bibtex_by_fulltext_scholar"
StrategyRank(fn) == IF fn = Scholar THEN 2 ELSE 1
StrategyIdx == {i \in 1..Len(calls) : calls[i].fn \in Strategies}
FoundIdx == {i \in StrategyIdx : calls[i].ret # NoneBib}
AllNone == FoundIdx = {}
FirstFound == calls[CHOOSE i \in FoundIdx : \A j \in FoundIdx : i <= j]
LastStrategy == calls[CHOOSE i \in StrategyIdx : \A j \in StrategyIdx : j <= i]
EachStrategyOnceInOrder ==
    \A i, j \in StrategyIdx :
        i < j => StrategyRank(calls[i].fn) < StrategyRank(calls[j].fn)

ScholarMismatch ==
    /\ title # None
    /\ \E i \in 1..Len(calls) :
          /\ calls[i].fn = Scholar
          /\ calls[i].ret # NoneBib
          /\ Strip(Lower(calls[i].ret.entries[1].title)) # Strip(Lower(title))

\* C2: when a title override is given and the full-text search returns a
\* record whose lower-cased, stripped title differs from the lower-cased,
\* stripped override, extract_metadata raises the wrong-entry error (not the
\* "no metadata" error), returns no Metadata, and the PDF is not renamed.
C2_WrongMatchIsFatal ==
    ScholarMismatch =>
        /\ pc = "failed"
        /\ error.kind = "WrongEntry"
        /\ content = NoContent
        /\ final_name = None
        /\ fs = {InputPdf}

C2_Witness ==
    /\ ScholarMismatch
    /\ pc = "failed"
    /\ calls[Len(calls)].ret.entries[1].title = <<"c", "/", "d">>
    /\ title = <<"A", ":", " ", "b", " ">>

\* C3: with no arXiv ID and a DOI available, a DOI lookup that returns no
\* record does not fail: a warning is logged and the full-text search is
\* attempted if and only if it is not disabled; the full-text search is
\* never attempted with the no-text-search flag set, nor after a DOI lookup
\* that returned a record.
C3_DoiFailureFallsBack ==
    /\ CalledWith("fetch_bibtex_by_doi", FALSE) =>
          /\ arxiv_id = None
          /\ \E k \in 1..Len(log) : log[k].level = "warning" /\ log[k].about = doi
          /\ pc = "fallback" => error = NoError
          /\ PastFallback => (Called(Scholar) <=> ~no_text_search)
    /\ no_text_search => ~Called(Scholar)
    /\ CalledWith("fetch_bibtex_by_doi", TRUE) => ~Called(Scholar)

C3_Witness ==
    /\ CalledWith("fetch_bibtex_by_doi", FALSE)
    /\ Called(Scholar)
    /\ pc = "done"

\* C4 as stated: extract_metadata calls each strategy at most once, in the
\* order arXiv / DOI / full-text; it raises the "no metadata" error naming
\* the PDF exactly when every strategy attempted returned no record, and
\* otherwise returns the record of the first strategy that returned one.
C4_RecordOrNoMetadata ==
    /\ EachStrategyOnceInOrder
    /\ ExtractEnded =>
          IF AllNone
          THEN pc = "failed" /\ error.kind = "NoMetadata" /\ error.arg = InputPdf
          ELSE /\ ExtractReturned
               /\ content = FirstFound.ret.entries[1]

\* C4 amended: as stated, except that a record found by the full-text
\* search is not returned when a title override is given and does not match
\* its title, lower-cased and stripped: extract_metadata then raises the
\* wrong-entry error.  No strategy is called after one returned a record.
C4_RecordOrFailure ==
    /\ EachStrategyOnceInOrder
    /\ ExtractEnded =>
          IF AllNone
          THEN pc = "failed" /\ error.kind = "NoMetadata" /\ error.arg = InputPdf
          ELSE LET f == FirstFound
               IN  /\ f = LastStrategy
                   /\ IF /\ f.fn = Scholar
                         /\ title # None
                         /\ Strip(Lower(f.ret.entries[1].title)) # Strip(Lower(title))
                      THEN pc = "failed" /\ error.kind = "WrongEntry"
                      ELSE ExtractReturned /\ content = f.ret.entries[1]

C4_Witness ==
    /\ pc = "failed"
    /\ error.kind = "NoMetadata"
    /\ CalledWith("fetch_bibtex_by_doi", FALSE)
    /\ CalledWith(Scholar, FALSE)

\* a DOI, as DOI_REGEXP describes one
IsDoi(w) ==
    \E d \in DoiMinDigits..DoiMaxDigits :
        /\ Len(w) >= d + 6
        /\ SubSeq(w, 1, 3) = <<"1", "0", ".">>
        /\ \A k \in 4..(3 + d) : w[k] \in Digits
        /\ w[4 + d] = "/"
        /\ \A k \in (5 + d)..Len(w) : w[k] \in DoiClass
        /\ w[Len(w)] \in Alnum
\* the positions of text at which a DOI starts
DoiStarts(text) ==
    {i \in 1..Len(text) : \E j \in i..Len(text) : IsDoi(SubSeq(text, i, j))}
\* w is the first DOI of text: it starts where the leftmost one starts
IsFirstDoi(text, w) ==
    \E i \in DoiStarts(text) :
        /\ \A k \in DoiStarts(text) : i <= k
        /\ i + Len(w) - 1 <= Len(text)
        /\ w = SubSeq(text, i, i + Len(w) - 1)
        /\ IsDoi(w)

\* C5: with no arXiv ID, a DOI given explicitly is used without opening the
\* PDF; otherwise the DOI is the embedded-metadata field when the PDF has
\* one, else the first match of the DOI pattern in the first page's text,
\* and there is no DOI only when the field is absent and the text holds no
\* match.
C5_DoiDetermination ==
    (arxiv_id = None /\ pc # "extract") =>
        IF ~Called("pymupdf.open")
        THEN doi \in ExplicitDois
        ELSE IF pdf.metadata.kind = "dict" /\ pdf.metadata.has_doi
             THEN doi = pdf.metadata.doi
             ELSE IF DoiStarts(pdf.first_page_text) = {}
                  THEN doi = None
                  ELSE IsFirstDoi(pdf.first_page_text, doi)

\* the path main computes for the renamed file
TargetOf(c) == PathFormat(InputDir, generate_pdf_filename(c).val)

\* C8: a dry run leaves the file system as it was and logs the target path
\* "{parent of the input}/{generated file name}", the very path a run that
\* is not dry moves the file to; in both modes nothing is moved unless
\* metadata resolution and file name generation both succeeded.
C8_DryRunSameTarget ==
    /\ pc = "done" =>
          /\ content # NoContent
          /\ generate_pdf_filename(content).ok
          /\ log[Len(log)].about = TargetOf(content)
          /\ IF dry_run
             THEN fs = {InputPdf}
             ELSE fs = {TargetOf(content)}
    /\ pc # "done" => fs = {InputPdf}

C8_Witness ==
    /\ pc = "done"
    /\ dry_run
    /\ fs = {InputPdf}
    /\ log[Len(log)].about = TargetOf(content)
    /\ TargetOf(content) # InputPdf


(***************************************************************************)
(* Metadata.generate_pdf_filename on its own, over many author fields      *)
(***************************************************************************)
MaxAuthorChunks == 4

AuthorChunks ==
    { <<"D", "o", "e">>, <<"J", "a", "n", "e">>, <<",">>, <<" ">>, AndSep,
      <<"U", "n", "k", "n", "o", "w", "n">> }
Authors == ChunkSeqs(AuthorChunks, MaxAuthorChunks)

Contents ==
    [author : Authors \cup {None},
     year : RecordYears \cup {None},
     title : RecordTitles \cup {None}]

InitFilename ==
    /\ arxiv_id = None /\ doi = None /\ title = None
    /\ no_text_search = FALSE /\ dry_run = FALSE
    /\ pdf = [metadata |-> NoMetadata, first_page_text |-> <<>>]
    /\ bibtex_str = NoneBib
    /\ content \in Contents
    /\ final_name = None
    /\ pc = "generate"
    /\ error = NoError /\ calls = <<>> /\ fs = {InputPdf} /\ log = <<>>
    /\ TitleIdle /\ ImportIdle
NextFilename == GeneratePdfFilename /\ UNCHANGED <<applied, importVars>>
SpecFilename == InitFilename /\ [][NextFilename]_vars

\* the first author of a lower-cased author field: the first piece between
\* " and " that is not blank, stripped (<<>> when there is none)
RECURSIVE FirstNonBlank(_)
FirstNonBlank(pieces) ==
    IF pieces = <<>> THEN <<>>
    ELSE IF Strip(Head(pieces)) # <<>> THEN Strip(Head(pieces))
    ELSE FirstNonBlank(Tail(pieces))
FirstAuthor(a) == FirstNonBlank(Split(Lower(a), AndSep))

\* the family name and the given names of a first author written
\* "Family, Given" or "Given Family"; <<>> for a part that is missing
FamilyOf(fa) ==
    IF Contains(fa, Comma) THEN Strip(Split(fa, Comma)[1])
    ELSE IF Len(SplitWS(fa)) >= 2 THEN SplitWS(fa)[Len(SplitWS(fa))]
    ELSE <<>>
GivenOf(fa) ==
    IF Contains(fa, Comma) THEN Strip(Split(fa, Comma)[2])
    ELSE IF Len(SplitWS(fa)) >= 2 THEN SplitWS(fa)[1]
    ELSE <<>>
\* the first author has the form "Family, Given": one family name and a
\* given name, neither empty
ParsesFamilyGiven(a) ==
    LET fa == FirstAuthor(a)
    IN  /\ fa # <<>>
        /\ Len(Split(fa, Comma)) <= 2
        /\ FamilyOf(fa) # <<>>
        /\ GivenOf(fa) # <<>>

\* C6: generate_pdf_filename returns no file name for a record whose author
\* is absent, is "unknown" in any letter case, does not parse into
\* "Family, Given" for the first author, or whose year is absent: it raises;
\* when it returns, the name is
\* "{year} - {FirstInitial}. {LastName} - {normalized title}.pdf", built
\* from the first author.
C6_NoDegradedFilename ==
    pc \in {"rename", "name_failed"} =>
        /\ ( \/ content.author = None
             \/ Lower(content.author) = Unknown
             \/ ~ParsesFamilyGiven(content.author)
             \/ content.year = None ) => pc = "name_failed"
        /\ pc = "rename" =>
              final_name = content.year \o Dash
                           \o <<UpperChar(GivenOf(FirstAuthor(content.author))[1])>> \o DotSpace
                           \o Capitalize(FamilyOf(FirstAuthor(content.author))) \o Dash
                           \o fix_title(content.title) \o PdfExt

(***************************************************************************)
(* fix_title applied again to its own result                               *)
(***************************************************************************)
MaxTitleLen == 4
MaxApplications == 2

TitleAlphabet == {":", " ", "'", "/", "a", "rsquo"}
Titles == SeqsUpTo(TitleAlphabet, MaxTitleLen)

InitTitle ==
    /\ applied \in {<<t>> : t \in Titles}
    /\ PdfIdle /\ ImportIdle
\* applied[1] is the title, applied[k + 1] is fix_title applied k times
ApplyFixTitle ==
    /\ Len(applied) <= MaxApplications
    /\ applied' = Append(applied, fix_title(applied[Len(applied)]))
    /\ UNCHANGED <<pdfVars, importVars>>
NextTitle == ApplyFixTitle
SpecTitle == InitTitle /\ [][NextTitle]_vars

\* C7: fix_title is idempotent: fix_title(fix_title(t)) = fix_title(t) for
\* every title t, also when a quote sits between a colon and a space.
C7_FixTitleIdempotent ==
    Len(applied) >= 3 => applied[3] = applied[2]


(***************************************************************************)
(* bandcamp_import/__main__.py: main, for the rows of the input table.     *)
(* The album directory is the environment's: the loop over glob('*.flac')  *)
(* meets one .flac file after the other, with any stem, and Image.open     *)
(* finds each cover file readable, missing or unreadable.                  *)
(***************************************************************************)
MaxStemLen == 4
TwoDigits == 2
MedSize == 120
SmallSize == 60

StemAlphabet == {"0", "7", "a", " "}
Stems == SeqsUpTo(StemAlphabet, MaxStemLen)
FlacExt == <<".", "f", "l", "a", "c">>

\* re.search("([0-9]{2}) (.*)", stem) matches at position i
TrackMatchAt(stem, i) ==
    /\ i + TwoDigits <= Len(stem)
    /\ \A k \in 0..(TwoDigits - 1) : stem[i + k] \in Digits
    /\ stem[i + TwoDigits] = " "

\* the positions re.search tries, of which it takes the leftmost
TrackMatchStarts(stem) == {i \in 1..Len(stem) : TrackMatchAt(stem, i)}

\* lines 172-175: m is None, or the new file name f"{m[1]} - {m[2]}.flac"
TrackFilename(stem) ==
    LET starts == TrackMatchStarts(stem)
    IN  IF starts = {} THEN None
        ELSE LET i == CHOOSE j \in starts : \A k \in starts : j <= k
             IN  SubSeq(stem, i, i + TwoDigits - 1) \o Dash
                 \o Tail_(stem, i + TwoDigits + 1) \o FlacExt

\* sizes of the cover image found in the archive
CoverSizes == {<<60, 60>>, <<120, 120>>, <<300, 200>>}
CoverModes == {"RGB", "P"}
OpenOutcomes == {"ok", "missing", "unreadable"}

\* an image: where it was opened from, its mode, and the sizes it went
\* through (the last one is its size)
Opened(file, mode, size) == [file |-> file, mode |-> mode, sizes |-> <<size>>]
\* image.resize((n, n))
Resize(img, n) == [img EXCEPT !.sizes = Append(img.sizes, <<n, n>>)]

\* line 183: except FileNotFoundError
FallsBackToPng_AnyError(outcome) == outcome # "ok"
FallsBackToPng(outcome) == outcome = "missing"

InitImport ==
    /\ track = None
    /\ renamed = NoRename
    /\ image = NoImage
    /\ opens = <<>>
    /\ written = <<>>
    /\ ipc = "row"
    /\ ierror = NoError
    /\ PdfIdle /\ TitleIdle

\* lines 155-168: the next row: create the album directory, extract the zip
ExtractZip ==
    /\ ipc = "row"
    /\ \E zip_found \in BOOLEAN :
          IF zip_found
          THEN ipc' = "tracks" /\ ierror' = ierror
          ELSE ipc' = "failed" /\ ierror' = Failed("FileNotFoundError", <<"zip">>)
    /\ UNCHANGED <<track, renamed, image, opens, written>>

\* lines 171-178: one iteration of the loop over the .flac files
RenameTrack ==
    /\ ipc = "tracks"
    /\ \E stem \in Stems :
          /\ track' = stem
          /\ LET filename == TrackFilename(stem)
             IN  IF filename = None
                 THEN /\ renamed' = NoRename
                      /\ ipc' = "failed"
                      /\ ierror' = Failed("BadFormat", stem \o FlacExt)
                 ELSE /\ renamed' = [from |-> stem \o FlacExt, to |-> filename]
                      /\ ipc' = ipc
                      /\ ierror' = ierror
    /\ UNCHANGED <<image, opens, written>>

\* the loop over the .flac files is over
TracksDone ==
    /\ ipc = "tracks"
    /\ ipc' = "cover"
    /\ UNCHANGED <<track, renamed, image, opens, written, ierror>>

\* lines 181-182: Image.open(cover.jpg)
OpenJpg ==
    /\ ipc = "cover"
    /\ \E outcome \in OpenOutcomes, mode \in CoverModes, size \in CoverSizes :
          /\ opens' = Append(opens, [file |-> "cover.jpg", outcome |-> outcome])
          /\ IF outcome = "ok"
             THEN /\ image' = Opened("cover.jpg", mode, size)
                  /\ ipc' = "convert" /\ ierror' = ierror
             ELSE IF FallsBackToPng(outcome)
             THEN image' = image /\ ipc' = "png" /\ ierror' = ierror
             ELSE /\ image' = image /\ ipc' = "failed"
                  /\ ierror' = Failed("UnreadableImage", <<"cover.jpg">>)
    /\ UNCHANGED <<track, renamed, written>>

\* lines 183-184: Image.open(cover.png)
OpenPng ==
    /\ ipc = "png"
    /\ \E outcome \in OpenOutcomes, mode \in CoverModes, size \in CoverSizes :
          /\ opens' = Append(opens, [file |-> "cover.png", outcome |-> outcome])
          /\ IF outcome = "ok"
             THEN /\ image' = Opened("cover.png", mode, size)
                  /\ ipc' = "convert" /\ ierror' = ierror
             ELSE /\ image' = image /\ ipc' = "failed"
                  /\ ierror' = IF outcome = "missing"
                               THEN Failed("FileNotFoundError", <<"cover.png">>)
                               ELSE Failed("UnreadableImage", <<"cover.png">>)
    /\ UNCHANGED <<track, renamed, written>>

\* line 186
Convert ==
    /\ ipc = "convert"
    /\ image' = [image EXCEPT !.mode = "RGB"]
    /\ ipc' = "med"
    /\ UNCHANGED <<track, renamed, opens, written, ierror>>

\* lines 188-189
SaveMed ==
    /\ ipc = "med"
    /\ image' = Resize(image, MedSize)
    /\ written' = Append(written, [name |-> "cover_med.jpg", image |-> image'])
    /\ ipc' = "small"
    /\ UNCHANGED <<track, renamed, opens, ierror>>

\* lines 191-192
SaveSmall ==
    /\ ipc = "small"
    /\ image' = Resize(image, SmallSize)
    /\ written' = Append(written, [name |-> "cover_small.jpg", image |-> image'])
    /\ ipc' = "row_done"
    /\ UNCHANGED <<track, renamed, opens, ierror>>

\* line 155: the row is done, on to the next one and its own album directory
NextRow ==
    /\ ipc = "row_done"
    /\ track' = None
    /\ renamed' = NoRename
    /\ image' = NoImage
    /\ opens' = <<>>
    /\ written' = <<>>
    /\ ipc' = "row"
    /\ ierror' = ierror

NextImport ==
    \/ ExtractZip /\ UNCHANGED <<pdfVars, applied>>
    \/ RenameTrack /\ UNCHANGED <<pdfVars, applied>>
    \/ TracksDone /\ UNCHANGED <<pdfVars, applied>>
    \/ OpenJpg /\ UNCHANGED <<pdfVars, applied>>
    \/ OpenPng /\ UNCHANGED <<pdfVars, applied>>
    \/ Convert /\ UNCHANGED <<pdfVars, applied>>
    \/ SaveMed /\ UNCHANGED <<pdfVars, applied>>
    \/ SaveSmall /\ UNCHANGED <<pdfVars, applied>>
    \/ NextRow /\ UNCHANGED <<pdfVars, applied>>

SpecImport == InitImport /\ [][NextImport]_vars

\* the stem is two digits, one space, then text, the digits leading it
LeadingTwoDigits(stem) ==
    /\ Len(stem) >= 3
    /\ stem[1] \in Digits /\ stem[2] \in Digits
    /\ stem[3] = " "

\* C9: a .flac file whose stem is not two leading digits, a space and text
\* makes the import raise "Bad format" and is not renamed; any other .flac
\* file is renamed to "{NN} - {rest}.flac", NN the two leading digits of the
\* stem and rest all that follows the space, so nothing of the stem is lost.
C9_TrackRenamer ==
    track # None =>
        IF ~LeadingTwoDigits(track)
        THEN ipc = "failed" /\ ierror.kind = "BadFormat" /\ renamed = NoRename
        ELSE renamed = [from |-> track \o FlacExt,
                        to |-> SubSeq(track, 1, 2) \o Dash \o Tail_(track, 4) \o FlacExt]

\* C10: cover.png is opened only after cover.jpg was found missing; a
\* cover.jpg that cannot be read is fatal; when no cover can be opened the
\* import fails and writes nothing; on success cover_med.jpg (120x120) is
\* written first, then cover_small.jpg (60x60), and the 60x60 image is the
\* 120x120 image resized, not the image that was loaded.
C10_CoverGenerator ==
    /\ \A i \in 1..Len(opens) :
          opens[i].file = "cover.png" =>
              i = 2 /\ opens[1] = [file |-> "cover.jpg", outcome |-> "missing"]
    /\ (opens # <<>> /\ opens[1].outcome = "unreadable") =>
          ipc = "failed" /\ Len(opens) = 1
    /\ (opens # <<>> /\ opens[Len(opens)].outcome # "ok") =>
          written = <<>> /\ (ipc = "failed" \/ ipc = "png")
    /\ ipc = "failed" => written = <<>>
    /\ written # <<>> =>
          /\ written[1].name = "cover_med.jpg"
          /\ written[1].image.sizes[Len(written[1].image.sizes)] = <<120, 120>>
          /\ Len(written[1].image.sizes) = 2
          /\ written[1].image.mode = "RGB"
    /\ Len(written) >= 2 =>
          /\ written[2].name = "cover_small.jpg"
          /\ written[2].image.sizes = Append(written[1].image.sizes, <<60, 60>>)
    /\ Len(written) <= 2
    /\ ipc = "row_done" => Len(written) = 2

C10_Witness ==
    /\ ipc = "row_done"
    /\ Len(opens) = 2
    /\ opens[2] = [file |-> "cover.png", outcome |-> "ok"]
    /\ Len(written) = 2
    /\ written[2].image.sizes = << <<300, 200>>, <<120, 120>>, <<60, 60>> >>

=============================================================================
